---- MODULE Spec2Model ----
(***************************************************************************)
(* Antigravity Quota Monitor: the refresh coordinator of extension.ts     *)
(* (refreshQuota, updateStatusBar, showModelPicker), the process locator   *)
(* of processDiscovery.ts and the port resolver / quota client of          *)
(* apiClient.ts.                                                           *)
(*                                                                         *)
(* refreshQuota is an async function: it runs synchronously up to each     *)
(* await and is resumed by the completion of the awaited I/O.  Every       *)
(* action below is one such synchronous segment.  Nothing in the code      *)
(* keeps a second refreshQuota call from starting while one is suspended,  *)
(* so several activations (Tasks) may be suspended at once.                *)
(***************************************************************************)
EXTENDS Integers, Sequences, FiniteSets, TLC

----------------------------------------------------------------------------
(* Bounds of the model *)

\* refreshQuota activations that may be suspended at the same time
MaxTasks == 2
\* CSRF tokens are 1..MaxToken
MaxToken == 1
\* port numbers are 1..MaxPort
MaxPort == 2
\* process entries in one enumeration
MaxProcs == 2
\* model configs in one response
MaxModels == 2
\* candidate ports of one findWorkingPort call (specification SpecFwp)
MaxCandidates == 3
\* timers armed in one session (activation and configuration changes)
MaxTimers == 3
\* the largest refresh interval a configuration sets, in seconds
MaxInterval == 2

Tasks == 1..MaxTasks
Ports == 1..MaxPort
Tokens == 1..MaxToken

----------------------------------------------------------------------------
(* Values *)

\* cachedPort: number | null;  !cachedPort is true of null
NoPort == 0
\* cachedCsrfToken: string | null;  !cachedCsrfToken is true of null
NoToken == 0
\* selectedModelLabel: string | null
Null == "null"
\* a JSON field that is missing (undefined)
Absent == "absent"
\* a resetTime in the response that is no string (a number, say): truthy,
\* and without a substring method
NonString == "nonString"
\* a missing remainingFraction in the response, and null in ModelQuota
AbsentNum == -1
NullFrac == -2

\* The command line of a process as the two regular expressions of
\* findAntigravityProcess see it: the --csrf_token value (NoToken: no match)
\* and the --extension_server_port value (NoPort: no match).
CmdLines == [csrf : Tokens \cup {NoToken}, port : {NoPort} \cup Ports]

RECURSIVE SeqsUpTo(_, _)
SeqsUpTo(S, n) ==
    IF n = 0 THEN {<<>>}
    ELSE LET shorter == SeqsUpTo(S, n - 1)
         IN  shorter \cup {Append(s, x) : s \in {q \in shorter : Len(q) = n - 1}, x \in S}

Distinct(s) == \A i, j \in 1..Len(s) : i # j => s[i] # s[j]

\* What the process enumeration (runPowerShell + JSON.parse) can deliver.
\* kind "error": PowerShell failed or timed out; "empty": no output;
\* "badjson": output that JSON.parse rejects; "json": a list of entries.
Enumerations ==
    {[kind |-> k, procs |-> <<>>] : k \in {"error", "empty", "badjson"}}
    \cup {[kind |-> "json", procs |-> p] : p \in SeqsUpTo(CmdLines, MaxProcs) \ {<<>>}}

\* What getListeningPorts can deliver: the distinct ports in some order
\* (<<>> also when the port listing fails).
PortLists == {s \in SeqsUpTo(Ports, MaxPort) : Distinct(s)}

\* The model configs a response may carry (label, quotaInfo.remainingFraction
\* in thousandths, quotaInfo.resetTime), fields possibly missing.
cfgA == [label |-> "A", frac |-> 150, reset |-> "R"]
cfgE == [label |-> "", frac |-> 504, reset |-> Absent]
cfgU == [label |-> Absent, frac |-> AbsentNum, reset |-> Absent]
cfgN == [label |-> "A", frac |-> 150, reset |-> NonString]
Cfgs == {cfgA, cfgE, cfgU}

\* What postJson + JSON.parse of GetUserStatus can deliver.
\*   badStatus / transport / parseError : fetchQuota returns null
\*   falsy      : HTTP 200, body parses to null, false, 0 or ""
\*   noUserStatus / noConfigData / noConfigs : a nested field is missing
\*   configs    : clientModelConfigs is a list of configs
\*   badShape   : clientModelConfigs is no array, or holds a null entry
FailKinds == {"badStatus", "transport", "parseError"}
EmptyKinds == {"noUserStatus", "noConfigData", "noConfigs"}
ResponsesOver(fails, empties, lists) ==
    {[kind |-> k, configs |-> <<>>] : k \in fails \cup empties \cup {"falsy", "badShape"}}
    \cup {[kind |-> "configs", configs |-> c] : c \in lists}

\* Specification Spec: every discovery input, few responses that end ok
Responses == ResponsesOver(FailKinds, {"noConfigs"}, {<<cfgA>>})

\* Specification SpecData: every response, few discovery inputs
DataResponses == ResponsesOver({"badStatus"}, EmptyKinds, SeqsUpTo(Cfgs, MaxModels))
DataEnumerations ==
    {[kind |-> "empty", procs |-> <<>>],
     [kind |-> "json", procs |-> <<[csrf |-> 1, port |-> NoPort]>>]}
DataPortLists == {<<>>, <<1>>}

\* refreshTimer: undefined before the first setInterval and after deactivate
NoTimer == 0
\* lines 77 and 79: the default interval in seconds, and seconds to milliseconds
DefaultInterval == 120
MillisPerSecond == 1000
\* remainingFraction is kept in thousandths: FracUnit stands for 1.0
FracUnit == 1000

\* What config.get('refreshIntervalSeconds') can find: nothing set, or a number
Configs ==
    {[set |-> FALSE, value |-> 0]}
    \cup {[set |-> TRUE, value |-> v] : v \in {-1, 0} \cup (1..MaxInterval)}
NoConfig == [set |-> FALSE, value |-> 0]

\* What one step shows the user and what it was given: the notification
\* (none, info, error) and the answer of the quota fetch it handled, with
\* the number of model configs in it
NoEvent == [notify |-> "none", answer |-> "none", count |-> 0]

NoProc == [pid |-> 0, csrfToken |-> NoToken, extensionPort |-> NoPort, listeningPorts |-> <<>>]
NoReq == [port |-> NoPort, token |-> NoToken]
NoResolved == [found |-> NoPort, fallback |-> NoPort, token |-> NoToken]
NoResponse == [kind |-> "none", configs |-> <<>>]
NoRepeat == [repeat |-> FALSE, models |-> <<>>]
NoFwp == [state |-> "idle", ports |-> <<>>, outstanding |-> {}, probed |-> <<>>, result |-> NoPort]

----------------------------------------------------------------------------
(* State *)

VARIABLES
    cachedPort,          \* extension.ts:22
    cachedCsrfToken,     \* extension.ts:23
    cachedModels,        \* extension.ts:18
    selectedModelLabel,  \* extension.ts:19
    statusText,          \* statusBarItem.text, by kind
    pickerItems,         \* the labels shown by an open quick pick (<<>>: closed)
    pc,                  \* per activation: where refreshQuota is suspended
    isManual,            \* per activation: refreshQuota's parameter
    procInfo,            \* per activation: the local procInfo while findWorkingPort runs
    outstanding,         \* per activation: positions of listeningPorts with a probe in flight
    req,                 \* per activation: the arguments of the fetchQuota call in flight
    resolved,            \* history, per activation with a fetch in flight after a discovery:
                         \* what findWorkingPort returned, the fallback and the token discovered
    earned,              \* history: what cachedPort has answered since it was cached:
                         \* "probe" (HTTP 200 in the discovery that cached it), else
                         \* "fetch" (a quota fetch, HTTP 200 and a body that parsed), else "no"
    invalidated,         \* history: a fetch failed and no refresh has started since
    lastOk,              \* history: the response of the last fetch that ended ok, if
                         \* no refresh has replaced the model list since
    repeated,            \* history: the list the last ok fetch replaced, if its response
                         \* repeated the one of the ok fetch before
    fwp,                 \* one findWorkingPort call on its own (specification SpecFwp)
    active,              \* "loaded", "active" (activate has run) or "deactivated"
    refreshTimer,        \* extension.ts:17, a timer handle or NoTimer
    armed,               \* the interval timers that are armed: [id, period in ms,
                         \* set: the interval was read from a configured value]
    timersMade,          \* how many setInterval calls there have been
    event,               \* what the last step showed the user, and the answer it handled
    escaped,             \* history: an exception has left refreshQuota
    healthy,             \* environment: from now on the process is there and answers
    recovered,           \* history: a refresh ended ok with the endpoint cached while healthy
    located,             \* one discoverProcess call on its own (specification SpecLocate)
    bands                \* one model rendered in both views (specification SpecBands)

vars == <<cachedPort, cachedCsrfToken, cachedModels, selectedModelLabel, statusText,
          pickerItems, pc, isManual, procInfo, outstanding, req, resolved,
          earned, invalidated, lastOk, repeated, fwp,
          active, refreshTimer, armed, timersMade, event, escaped,
          healthy, recovered, located, bands>>

timerVars == <<active, refreshTimer, armed, timersMade>>
envVars == <<healthy, recovered>>
harnessVars == <<fwp, located, bands>>

NoLocated == [state |-> "idle", enum |-> [kind |-> "empty", procs |-> <<>>],
              ports |-> <<>>, result |-> NoProc]
NoBands == [state |-> "idle", frac |-> 0, status |-> "none", picker |-> "none"]

Init ==
    /\ cachedPort = NoPort
    /\ cachedCsrfToken = NoToken
    /\ cachedModels = <<>>
    /\ selectedModelLabel = Null
    /\ statusText = "init"
    /\ pickerItems = <<>>
    /\ pc = [t \in Tasks |-> "idle"]
    /\ isManual = [t \in Tasks |-> FALSE]
    /\ procInfo = [t \in Tasks |-> NoProc]
    /\ outstanding = [t \in Tasks |-> {}]
    /\ req = [t \in Tasks |-> NoReq]
    /\ resolved = [t \in Tasks |-> NoResolved]
    /\ earned = "no"
    /\ invalidated = FALSE
    /\ lastOk = NoResponse
    /\ repeated = NoRepeat
    /\ fwp = NoFwp
    /\ active = "loaded"
    /\ refreshTimer = NoTimer
    /\ armed = {}
    /\ timersMade = 0
    /\ event = NoEvent
    /\ escaped = FALSE
    /\ healthy = FALSE
    /\ recovered = FALSE
    /\ located = NoLocated
    /\ bands = NoBands

----------------------------------------------------------------------------
(* processDiscovery.ts *)

\* a slip of line 77: an entry is taken only if it has a fallback port too
FirstWithTokenAndPort(procs, i) ==
    LET both == {k \in i..Len(procs) : procs[k].csrf # NoToken /\ procs[k].port # NoPort}
    IN  IF both = {} THEN 0 ELSE CHOOSE k \in both : \A j \in both : k <= j

\* The for loop of findAntigravityProcess: the position of the first entry
\* whose command line yields a token, 0 when there is none.
RECURSIVE FirstWithToken(_, _)
FirstWithToken(procs, i) ==
    IF i > Len(procs) THEN 0
    ELSE IF procs[i].csrf # NoToken THEN i
    ELSE FirstWithToken(procs, i + 1)

\* findAntigravityProcess: null (NoProc) when the enumeration fails, prints
\* nothing or prints no JSON; else the first entry with a token.  The
\* process id of an entry is its position in the enumeration.
FindAntigravityProcess(enum) ==
    IF enum.kind # "json" THEN NoProc
    ELSE LET i == FirstWithToken(enum.procs, 1)
         IN  IF i = 0 THEN NoProc
             ELSE [pid |-> i, csrfToken |-> enum.procs[i].csrf,
                   extensionPort |-> enum.procs[i].port, listeningPorts |-> <<>>]

\* discoverProcess: findAntigravityProcess, then getListeningPorts of its pid
DiscoverProcess(enum, ports) ==
    LET proc == FindAntigravityProcess(enum)
    IN  IF proc = NoProc THEN NoProc ELSE [proc EXCEPT !.listeningPorts = ports]

----------------------------------------------------------------------------
(* apiClient.ts *)

\* findWorkingPort, at its call: the probes it issues before its first await.
FwpFirst(ports) == IF ports = <<>> THEN {} ELSE {1}

\* a slip of lines 92-94: the loop goes on after a probe that answered
FwpNextNoReturn(ports, i, ok) ==
    [done |-> i = Len(ports),
     result |-> IF ok THEN ports[i] ELSE NoPort,
     issue |-> IF i < Len(ports) THEN {i + 1} ELSE {}]

\* findWorkingPort, resumed by the return of the probe of ports[i]:
\* done with a result, or the next probe issued.
FwpNext(ports, i, ok) ==
    [done |-> ok \/ i = Len(ports),
     result |-> IF ok THEN ports[i] ELSE NoPort,
     issue |-> IF ~ok /\ i < Len(ports) THEN {i + 1} ELSE {}]

\* fetchQuota's result: null for a non-200 status, a transport error or a
\* body JSON.parse rejects; else the parsed body.
NullResponse == [kind |-> "null", configs |-> <<>>]
\* a slip of lines 119-122: the status of the answer is not looked at
FetchQuotaAnyStatus(resp) ==
    IF resp.kind \in {"transport", "parseError"} THEN NullResponse ELSE resp

FetchQuota(resp) == IF resp.kind \in FailKinds THEN NullResponse ELSE resp

----------------------------------------------------------------------------
(* extension.ts *)

\* !response (line 131): null, or a body that parsed to a falsy value
Falsy(response) == response.kind \in {"null", "falsy"}

\* line 144: response.userStatus?.cascadeModelConfigData?.clientModelConfigs ?? []
ClientModelConfigs(response) ==
    IF response.kind = "configs" THEN response.configs ELSE <<>>

\* lines 145-149: one ModelQuota per config
MapConfig(cfg) ==
    [label |-> IF cfg.label = Absent THEN "Unknown" ELSE cfg.label,
     remainingFraction |-> IF cfg.frac = AbsentNum THEN NullFrac ELSE cfg.frac,
     resetTime |-> IF cfg.reset = Absent THEN "" ELSE cfg.reset]

\* a slip of line 145: the new entries are added to the list
NewModelsMerged(old, response) ==
    LET configs == ClientModelConfigs(response)
    IN  old \o [i \in 1..Len(configs) |-> MapConfig(configs[i])]

\* lines 144-149: the value assigned to cachedModels, given the list it replaces
NewModels(old, response) ==
    LET configs == ClientModelConfigs(response)
    IN  [i \in 1..Len(configs) |-> MapConfig(configs[i])]

\* !selectedModelLabel (line 152): true of null and of the empty string
Unselected(label) == label = Null \/ label = ""

\* lines 152-154: auto-select the first model if nothing is selected
AutoSelect(label, models) ==
    IF Unselected(label) /\ Len(models) > 0 THEN models[1].label ELSE label

\* a slip of lines 110-112: with no fallback either, the first listening port is taken unprobed
ResolvePortFirstListening(workingPort, info) ==
    IF workingPort # NoPort THEN workingPort
    ELSE IF info.extensionPort # NoPort THEN info.extensionPort
    ELSE IF info.listeningPorts # <<>> THEN info.listeningPorts[1]
    ELSE NoPort

\* lines 110-112: the fallback port when no probe succeeded
ResolvePort(workingPort, info) ==
    IF workingPort = NoPort /\ info.extensionPort # NoPort
    THEN info.extensionPort
    ELSE workingPort

\* Math.round(frac * 100) (lines 183, 231), frac in thousandths
Percent(frac) == (2 * frac * 100 + FracUnit) \div (2 * FracUnit)

\* updateStatusBar (lines 182-203): the colour band of the icon and background
StatusBand(frac) ==
    IF frac = NullFrac THEN "none"
    ELSE IF Percent(frac) > 50 THEN "green"
    ELSE IF Percent(frac) > 20 THEN "yellow"
    ELSE "red"

\* showModelPicker (lines 232-241): the colour band of the item's icon
PickerBand(frac) ==
    IF frac = NullFrac THEN "none"
    ELSE IF 10 * frac > 5 * FracUnit THEN "green"
    ELSE IF 10 * frac > 2 * FracUnit THEN "yellow"
    ELSE "red"

\* updateStatusBar (lines 173-210): the kind of text it sets
UpdateStatusBar(models, label) ==
    LET hits == {i \in 1..Len(models) : models[i].label = label}
    IN  IF label = Null \/ hits = {} THEN "no data"
        ELSE LET first == CHOOSE i \in hits : \A j \in hits : i <= j
             IN  IF models[first].remainingFraction # NullFrac THEN "quota" ELSE "N/A"

\* a slip of line 91: the cache is not consulted
NeedsDiscoveryEveryTime(port, token) == TRUE

\* updateStatusBar, lines 206-208: model.resetTime.substring throws a
\* TypeError when the model shown has a resetTime that is truthy and no
\* string; the text of the status bar is set by then (lines 198, 201)
StatusBarThrows(models, label) ==
    \E i \in 1..Len(models) :
        /\ models[i].label = label
        /\ \A j \in 1..(i - 1) : models[j].label # label
        /\ models[i].resetTime = NonString

\* showModelPicker, lines 243-245: the same throw, for any model of the list
PickerThrows(models) == \E i \in 1..Len(models) : models[i].resetTime = NonString

\* line 91: re-discover if there is no cached port or no cached token
NeedsDiscovery(port, token) == port = NoPort \/ token = NoToken

\* lines 133-134: what a failed fetch leaves in the cache
Invalidated == [port |-> NoPort, token |-> NoToken]

\* no refreshQuota activation is suspended; those that are; the test of line 91 fails
Idle == \A t \in Tasks : pc[t] = "idle"
InFlight == {t \in Tasks : pc[t] # "idle"}
CacheFull == cachedPort # NoPort /\ cachedCsrfToken # NoToken

\* if (isManual) show...Message (lines 98, 116, 137, 158)
Notification(manual, kind) == IF manual THEN kind ELSE "none"

\* lines 144-149 throw a TypeError when clientModelConfigs is no array or
\* holds a null entry
Thrown(response) == response.kind = "badShape"

\* a slip of lines 89 and 163: no try/catch, the exception leaves refreshQuota
CaughtNowhere(text) == [text |-> text, escaped |-> TRUE]

\* a slip of lines 165-166: the catch block logs and leaves the status as it is
CaughtSilently(text) == [text |-> text, escaped |-> FALSE]

\* the catch block (lines 163-167), given the status text at the throw
Caught(text) == [text |-> "error", escaped |-> FALSE]

\* lines 77 and 79: the period setInterval is given, in milliseconds
TimerPeriod(config) ==
    (IF config.set THEN config.value ELSE DefaultInterval) * MillisPerSecond

\* clearInterval(handle); a no-op for undefined
ClearInterval(timers, handle) == {a \in timers : a.id # handle}

\* a slip of lines 72-74: the timer armed before is left running
StartRefreshTimerNoClear(timers, handle, id, config) ==
    timers \cup {[id |-> id, period |-> TimerPeriod(config), set |-> config.set]}

\* startRefreshTimer (lines 71-83): the timers armed after it, the new one
\* having handle id
StartRefreshTimer(timers, handle, id, config) ==
    ClearInterval(timers, handle)
        \cup {[id |-> id, period |-> TimerPeriod(config), set |-> config.set]}

\* refreshQuota from its call to its first await (lines 89-94, or 89-91 and
\* 128-129 with a cached endpoint)
Start(t, manual) ==
    /\ pc[t] = "idle"
    /\ isManual' = [isManual EXCEPT ![t] = manual]
    /\ invalidated' = FALSE
    /\ IF NeedsDiscovery(cachedPort, cachedCsrfToken)
       THEN /\ statusText' = "connecting"
            /\ pc' = [pc EXCEPT ![t] = "discover"]
            /\ req' = req
       ELSE /\ statusText' = "fetching"
            /\ pc' = [pc EXCEPT ![t] = "fetch"]
            /\ req' = [req EXCEPT ![t] = [port |-> cachedPort, token |-> cachedCsrfToken]]
    /\ event' = NoEvent
    /\ UNCHANGED <<cachedPort, cachedCsrfToken, cachedModels, selectedModelLabel,
                   pickerItems, procInfo, outstanding, resolved, earned,
                   lastOk, repeated, escaped>>
    /\ UNCHANGED <<envVars, harnessVars>>

\* The activation a new call of refreshQuota becomes
HasFreeTask == \E t \in Tasks : pc[t] = "idle"
FreeTask == CHOOSE t \in Tasks : pc[t] = "idle" /\ \A u \in Tasks : pc[u] = "idle" => t <= u

\* the command antigravityQuota.refresh (line 42)
ManualRefresh ==
    active = "active" /\ HasFreeTask /\ Start(FreeTask, TRUE) /\ UNCHANGED timerVars

\* an armed interval timer fires (line 79)
TimerTick ==
    armed # {} /\ HasFreeTask /\ Start(FreeTask, FALSE) /\ UNCHANGED timerVars

\* activate (lines 28-59): the timer is armed and the initial fetch started
Activate(config) ==
    /\ active = "loaded"
    /\ active' = "active"
    /\ timersMade' = timersMade + 1
    /\ refreshTimer' = timersMade'
    /\ armed' = StartRefreshTimer(armed, refreshTimer, timersMade', config)
    /\ Start(FreeTask, FALSE)

\* onDidChangeConfiguration of refreshIntervalSeconds (lines 50-54)
ConfigChange(config) ==
    /\ active = "active"
    /\ timersMade < MaxTimers
    /\ timersMade' = timersMade + 1
    /\ refreshTimer' = timersMade'
    /\ armed' = StartRefreshTimer(armed, refreshTimer, timersMade', config)
    /\ event' = NoEvent
    /\ UNCHANGED <<cachedPort, cachedCsrfToken, cachedModels, selectedModelLabel, statusText,
                   pickerItems, pc, isManual, procInfo, outstanding, req, resolved,
                   earned, invalidated, lastOk, repeated, active, escaped>>
    /\ UNCHANGED <<envVars, harnessVars>>

\* deactivate (lines 61-66), and the host disposing of the subscriptions:
\* the commands, the configuration listener and the disposables of line 82
Deactivate ==
    /\ active = "active"
    /\ active' = "deactivated"
    /\ armed' = ClearInterval(armed, refreshTimer)
    /\ refreshTimer' = NoTimer
    /\ event' = NoEvent
    /\ UNCHANGED <<cachedPort, cachedCsrfToken, cachedModels, selectedModelLabel, statusText,
                   pickerItems, pc, isManual, procInfo, outstanding, req, resolved,
                   earned, invalidated, lastOk, repeated, timersMade, escaped>>
    /\ UNCHANGED <<envVars, harnessVars>>

\* showModelPicker with no models: the user answers "Refresh" (lines 216-224)
PickerRefresh ==
    /\ active = "active"
    /\ HasFreeTask /\ cachedModels = <<>> /\ pickerItems = <<>>
    /\ Start(FreeTask, TRUE)
    /\ UNCHANGED timerVars

\* refreshQuota from line 110 to its next await or return, entered with the
\* result of findWorkingPort and the token cachedCsrfToken holds by then
AfterFindWorkingPort(t, info, found, token) ==
    LET workingPort == ResolvePort(found, info)
    IN  /\ cachedCsrfToken' = token
        /\ procInfo' = [procInfo EXCEPT ![t] = NoProc]
        /\ outstanding' = [outstanding EXCEPT ![t] = {}]
        /\ IF workingPort = NoPort
           THEN /\ statusText' = "no port"
                /\ event' = [notify |-> Notification(isManual[t], "error"), answer |-> "none", count |-> 0]
                /\ pc' = [pc EXCEPT ![t] = "idle"]
                /\ isManual' = [isManual EXCEPT ![t] = FALSE]
                /\ UNCHANGED <<cachedPort, req, resolved, earned>>
           ELSE /\ cachedPort' = workingPort
                /\ event' = NoEvent
                /\ earned' = (IF found # NoPort THEN "probe" ELSE "no")
                /\ statusText' = "fetching"
                /\ req' = [req EXCEPT ![t] = [port |-> workingPort, token |-> token]]
                /\ resolved' = [resolved EXCEPT ![t] =
                       [found |-> found, fallback |-> info.extensionPort,
                        token |-> info.csrfToken]]
                /\ pc' = [pc EXCEPT ![t] = "fetch"]
                /\ isManual' = isManual

\* What discoverProcess can return
Discoveries == {DiscoverProcess(e, p) : e \in Enumerations, p \in PortLists}
DataDiscoveries == {DiscoverProcess(e, p) : e \in DataEnumerations, p \in DataPortLists}

\* refreshQuota resumed by discoverProcess (lines 95-109; 110-129 when
\* there is no port to probe)
DiscoverReturn(t, info) ==
    /\ pc[t] = "discover"
    /\ IF info = NoProc
           THEN /\ statusText' = "no process"
                /\ event' = [notify |-> Notification(isManual[t], "error"), answer |-> "none", count |-> 0]
                /\ pc' = [pc EXCEPT ![t] = "idle"]
                /\ isManual' = [isManual EXCEPT ![t] = FALSE]
                /\ UNCHANGED <<cachedPort, cachedCsrfToken, procInfo, outstanding,
                               req, resolved, earned>>
       ELSE IF FwpFirst(info.listeningPorts) = {}
           THEN AfterFindWorkingPort(t, info, NoPort, info.csrfToken)
           ELSE /\ cachedCsrfToken' = info.csrfToken
                /\ procInfo' = [procInfo EXCEPT ![t] = [info EXCEPT !.pid = 0]]
                /\ outstanding' = [outstanding EXCEPT ![t] = FwpFirst(info.listeningPorts)]
                /\ pc' = [pc EXCEPT ![t] = "probe"]
                /\ event' = NoEvent
                /\ UNCHANGED <<cachedPort, statusText, isManual, req, resolved, earned>>
    /\ UNCHANGED <<cachedModels, selectedModelLabel, pickerItems, invalidated,
                   lastOk, repeated, escaped>>
    /\ UNCHANGED <<timerVars, envVars, harnessVars>>

\* findWorkingPort resumed by the return of one probe (apiClient.ts 91-96),
\* and refreshQuota resumed by its result (lines 110-129)
ProbeReturn(t, i, ok) ==
    /\ pc[t] = "probe"
    /\ i \in outstanding[t]
    /\ LET info == procInfo[t]
           step == FwpNext(info.listeningPorts, i, ok)
       IN  IF step.done
           THEN AfterFindWorkingPort(t, info, step.result, cachedCsrfToken)
           ELSE /\ outstanding' = [outstanding EXCEPT ![t] = (outstanding[t] \ {i}) \cup step.issue]
                /\ event' = NoEvent
                /\ UNCHANGED <<cachedPort, cachedCsrfToken, statusText, pc, isManual,
                               procInfo, req, resolved, earned>>
    /\ UNCHANGED <<cachedModels, selectedModelLabel, pickerItems, invalidated,
                   lastOk, repeated, escaped>>
    /\ UNCHANGED <<timerVars, envVars, harnessVars>>

\* refreshQuota resumed by fetchQuota (lines 131-167)
FetchReturn(t, resp) ==
    /\ pc[t] = "fetch"
    /\ pc' = [pc EXCEPT ![t] = "idle"]
    /\ isManual' = [isManual EXCEPT ![t] = FALSE]
    /\ req' = [req EXCEPT ![t] = NoReq]
    /\ resolved' = [resolved EXCEPT ![t] = NoResolved]
    /\ LET response == FetchQuota(resp)
           \* HTTP 200 with a body that parses, from the port the cache holds
           answered == resp.kind \notin FailKinds /\ req[t].port = cachedPort
           earnedNow == IF cachedPort = NoPort THEN "no"
                        ELSE IF earned = "no" /\ answered THEN "fetch"
                        ELSE earned
       IN  IF Falsy(response)
           THEN /\ cachedPort' = Invalidated.port
                /\ cachedCsrfToken' = Invalidated.token
                /\ statusText' = "fetch failed"
                /\ earned' = (IF cachedPort' = NoPort THEN "no" ELSE earnedNow)
                /\ invalidated' = TRUE
                /\ event' = [notify |-> Notification(isManual[t], "error"), answer |-> resp.kind, count |-> Len(resp.configs)]
                /\ UNCHANGED <<cachedModels, selectedModelLabel, lastOk, repeated,
                               escaped, recovered>>
           ELSE IF Thrown(response)
           THEN /\ statusText' = Caught(statusText).text
                /\ escaped' = (escaped \/ Caught(statusText).escaped)
                /\ earned' = earnedNow
                /\ event' = [notify |-> "none", answer |-> resp.kind, count |-> Len(resp.configs)]
                /\ UNCHANGED <<cachedPort, cachedCsrfToken, cachedModels,
                               selectedModelLabel, invalidated, lastOk, repeated, recovered>>
           ELSE /\ cachedModels' = NewModels(cachedModels, response)
                /\ selectedModelLabel' = AutoSelect(selectedModelLabel, cachedModels')
                /\ earned' = earnedNow
                /\ IF StatusBarThrows(cachedModels', selectedModelLabel')
                   THEN \* updateStatusBar (line 156) throws into the catch block
                        LET text == UpdateStatusBar(cachedModels', selectedModelLabel')
                        IN  /\ statusText' = Caught(text).text
                            /\ escaped' = (escaped \/ Caught(text).escaped)
                            /\ event' = [notify |-> "none", answer |-> resp.kind,
                                         count |-> Len(resp.configs)]
                            /\ lastOk' = NoResponse
                            /\ repeated' = NoRepeat
                            /\ UNCHANGED recovered
                   ELSE /\ statusText' = UpdateStatusBar(cachedModels', selectedModelLabel')
                        /\ event' = [notify |-> Notification(isManual[t], "info"),
                                     answer |-> resp.kind, count |-> Len(resp.configs)]
                        /\ recovered' = (recovered \/ (healthy /\ CacheFull))
                        /\ lastOk' = response
                        /\ repeated' = IF response = lastOk
                                       THEN [repeat |-> TRUE, models |-> cachedModels]
                                       ELSE NoRepeat
                        /\ UNCHANGED escaped
                /\ UNCHANGED <<cachedPort, cachedCsrfToken, invalidated>>
    /\ UNCHANGED <<pickerItems, procInfo, outstanding, healthy>>
    /\ UNCHANGED <<timerVars, harnessVars>>

\* showModelPicker up to showQuickPick (lines 216, 228-261): the items are
\* built from cachedModels as it is now
PickerOpen ==
    /\ active = "active"
    /\ cachedModels # <<>>
    /\ ~PickerThrows(cachedModels)
    /\ pickerItems = <<>>
    /\ pickerItems' = [i \in 1..Len(cachedModels) |-> cachedModels[i].label]
    /\ event' = NoEvent
    /\ UNCHANGED <<cachedPort, cachedCsrfToken, cachedModels, selectedModelLabel, statusText,
                   pc, isManual, procInfo, outstanding, req, resolved,
                   earned, invalidated, lastOk, repeated, escaped>>
    /\ UNCHANGED <<timerVars, envVars, harnessVars>>

\* showModelPicker resumed by the user's pick (lines 263-266)
PickerPick(i) ==
    /\ i \in 1..Len(pickerItems)
    /\ selectedModelLabel' = pickerItems[i]
    /\ statusText' = UpdateStatusBar(cachedModels, selectedModelLabel')
    /\ pickerItems' = <<>>
    /\ event' = NoEvent
    /\ UNCHANGED <<cachedPort, cachedCsrfToken, cachedModels,
                   pc, isManual, procInfo, outstanding, req, resolved,
                   earned, invalidated, lastOk, repeated, escaped>>
    /\ UNCHANGED <<timerVars, envVars, harnessVars>>

\* showModelPicker resumed by a dismissed quick pick (line 263, picked undefined)
PickerCancel ==
    /\ pickerItems # <<>>
    /\ pickerItems' = <<>>
    /\ event' = NoEvent
    /\ UNCHANGED <<cachedPort, cachedCsrfToken, cachedModels, selectedModelLabel, statusText,
                   pc, isManual, procInfo, outstanding, req, resolved,
                   earned, invalidated, lastOk, repeated, escaped>>
    /\ UNCHANGED <<timerVars, envVars, harnessVars>>

----------------------------------------------------------------------------
(* Specifications *)

\* The extension over every discovery input and a few model lists
Next ==
    \/ Activate(NoConfig)
    \/ ManualRefresh
    \/ TimerTick
    \/ PickerRefresh
    \/ \E t \in Tasks, info \in Discoveries : DiscoverReturn(t, info)
    \/ \E t \in Tasks, i \in 1..MaxPort, ok \in BOOLEAN : ProbeReturn(t, i, ok)
    \/ \E t \in Tasks, resp \in Responses : FetchReturn(t, resp)
    \/ PickerOpen
    \/ \E i \in 1..MaxModels : PickerPick(i)
    \/ PickerCancel

Spec == Init /\ [][Next]_vars

\* The extension over every model list and a few discovery inputs
NextData ==
    \/ Activate(NoConfig)
    \/ ManualRefresh
    \/ TimerTick
    \/ PickerRefresh
    \/ \E t \in Tasks, info \in DataDiscoveries : DiscoverReturn(t, info)
    \/ \E t \in Tasks, ok \in BOOLEAN : ProbeReturn(t, 1, ok)
    \/ \E t \in Tasks, resp \in DataResponses : FetchReturn(t, resp)
    \/ PickerOpen
    \/ \E i \in 1..MaxModels : PickerPick(i)
    \/ PickerCancel

SpecData == Init /\ [][NextData]_vars

\* The extension over responses whose handling fails late: a model whose
\* resetTime is no string, besides failed, ill-shaped and well-formed answers
StaleResponses ==
    ResponsesOver({"badStatus"}, {"noConfigs"}, {<<cfgA>>, <<cfgN>>, <<cfgU, cfgN>>})

NextStale ==
    \/ Activate(NoConfig)
    \/ ManualRefresh
    \/ TimerTick
    \/ PickerRefresh
    \/ \E t \in Tasks, info \in DataDiscoveries : DiscoverReturn(t, info)
    \/ \E t \in Tasks, ok \in BOOLEAN : ProbeReturn(t, 1, ok)
    \/ \E t \in Tasks, resp \in StaleResponses : FetchReturn(t, resp)
    \/ PickerOpen
    \/ \E i \in 1..MaxModels : PickerPick(i)
    \/ PickerCancel

SpecStale == Init /\ [][NextStale]_vars

\* The timer's life: activation, configuration changes and deactivation
\* over every configured interval, with automatic refreshes in flight
TimerResponses == ResponsesOver({"badStatus"}, {}, {<<cfgA>>})

NextTimer ==
    \/ \E config \in Configs : Activate(config)
    \/ \E config \in Configs : ConfigChange(config)
    \/ Deactivate
    \/ TimerTick
    \/ \E t \in Tasks, info \in DataDiscoveries : DiscoverReturn(t, info)
    \/ \E t \in Tasks, ok \in BOOLEAN : ProbeReturn(t, 1, ok)
    \/ \E t \in Tasks, resp \in TimerResponses : FetchReturn(t, resp)

SpecTimer == Init /\ [][NextTimer]_vars

\* Recovery.  The environment may turn healthy at any moment and then stays
\* so: the process is found with a token, HealthyPort is among its
\* listening ports and is the one port that answers probes, and a quota
\* fetch sent to it with a token is answered with a well-formed list.
HealthyPort == CHOOSE p \in Ports : \A q \in Ports : p <= q
OtherPort == CHOOSE p \in Ports : p # HealthyPort

LiveEnumerations ==
    {[kind |-> "empty", procs |-> <<>>],
     [kind |-> "json", procs |-> <<[csrf |-> 1, port |-> NoPort]>>],
     [kind |-> "json", procs |-> <<[csrf |-> 1, port |-> OtherPort]>>]}
LivePortLists == {<<>>, <<HealthyPort>>, <<OtherPort, HealthyPort>>}
LiveDiscoveries == {DiscoverProcess(e, p) : e \in LiveEnumerations, p \in LivePortLists}
LiveResponses ==
    {[kind |-> "badStatus", configs |-> <<>>], [kind |-> "configs", configs |-> <<cfgA>>]}

HealthyDiscovery(info) ==
    info # NoProc /\ \E i \in 1..Len(info.listeningPorts) : info.listeningPorts[i] = HealthyPort

BecomeHealthy ==
    /\ ~healthy
    /\ healthy' = TRUE
    /\ event' = NoEvent
    /\ UNCHANGED <<cachedPort, cachedCsrfToken, cachedModels, selectedModelLabel, statusText,
                   pickerItems, pc, isManual, procInfo, outstanding, req, resolved,
                   earned, invalidated, lastOk, repeated, escaped, recovered>>
    /\ UNCHANGED <<timerVars, harnessVars>>

LiveDiscoverReturn(t) ==
    \E info \in LiveDiscoveries :
        /\ healthy => HealthyDiscovery(info)
        /\ DiscoverReturn(t, info)

LiveProbeReturn(t) ==
    \E i \in 1..MaxPort, ok \in BOOLEAN :
        /\ pc[t] = "probe"
        /\ i \in outstanding[t]
        /\ healthy => (ok <=> procInfo[t].listeningPorts[i] = HealthyPort)
        /\ ProbeReturn(t, i, ok)

LiveFetchReturn(t) ==
    \E resp \in LiveResponses :
        /\ (healthy /\ req[t].port = HealthyPort /\ req[t].token # NoToken)
              => resp.kind = "configs"
        /\ FetchReturn(t, resp)

NextLive ==
    \/ Activate(NoConfig)
    \/ ManualRefresh
    \/ TimerTick
    \/ BecomeHealthy
    \/ \E t \in Tasks : LiveDiscoverReturn(t)
    \/ \E t \in Tasks : LiveProbeReturn(t)
    \/ \E t \in Tasks : LiveFetchReturn(t)

\* Every awaited call returns (each has a timeout), the extension is
\* activated, and a refresh is started whenever one can be for good
SpecLive ==
    /\ Init /\ [][NextLive]_vars
    /\ WF_vars(Activate(NoConfig))
    /\ WF_vars(TimerTick \/ ManualRefresh)
    /\ \A t \in Tasks :
          /\ WF_vars(LiveDiscoverReturn(t))
          /\ WF_vars(LiveProbeReturn(t))
          /\ WF_vars(LiveFetchReturn(t))

\* findWorkingPort on its own, over every list of candidate ports: the
\* call, the return of one probe, and the caller taking the result
CandidateLists == SeqsUpTo(1..MaxCandidates, MaxCandidates)
extensionVars == <<cachedPort, cachedCsrfToken, cachedModels, selectedModelLabel, statusText,
                   pickerItems, pc, isManual, procInfo, outstanding, req, resolved,
                   earned, invalidated, lastOk, repeated,
                   active, refreshTimer, armed, timersMade, event, escaped,
                   healthy, recovered>>

FwpCall(ports) ==
    /\ fwp.state = "idle"
    /\ fwp' = [state |-> IF FwpFirst(ports) = {} THEN "returned" ELSE "running",
               ports |-> ports, outstanding |-> FwpFirst(ports), probed |-> <<>>,
               result |-> NoPort]
    /\ UNCHANGED <<extensionVars, located, bands>>

FwpProbeReturn(i, ok) ==
    /\ fwp.state = "running"
    /\ i \in fwp.outstanding
    /\ LET step == FwpNext(fwp.ports, i, ok)
           probes == Append(fwp.probed, [pos |-> i, port |-> fwp.ports[i], ok |-> ok])
       IN  fwp' = IF step.done
                  THEN [fwp EXCEPT !.state = "returned", !.outstanding = {},
                                   !.probed = probes, !.result = step.result]
                  ELSE [fwp EXCEPT !.outstanding = (fwp.outstanding \ {i}) \cup step.issue,
                                   !.probed = probes]
    /\ UNCHANGED <<extensionVars, located, bands>>

FwpTaken ==
    /\ fwp.state = "returned"
    /\ fwp' = NoFwp
    /\ UNCHANGED <<extensionVars, located, bands>>

NextFwp ==
    \/ \E ports \in CandidateLists : FwpCall(ports)
    \/ \E i \in 1..MaxCandidates, ok \in BOOLEAN : FwpProbeReturn(i, ok)
    \/ FwpTaken

SpecFwp == Init /\ [][NextFwp]_vars

\* discoverProcess on its own, over every process enumeration and every
\* port listing: the call with its result, and the caller taking it
LocateCall(enum, ports) ==
    /\ located.state = "idle"
    /\ located' = [state |-> "returned", enum |-> enum, ports |-> ports,
                   result |-> DiscoverProcess(enum, ports)]
    /\ UNCHANGED <<extensionVars, fwp, bands>>

LocateTaken ==
    /\ located.state = "returned"
    /\ located' = NoLocated
    /\ UNCHANGED <<extensionVars, fwp, bands>>

NextLocate ==
    \/ \E enum \in Enumerations, ports \in PortLists : LocateCall(enum, ports)
    \/ LocateTaken

SpecLocate == Init /\ [][NextLocate]_vars

\* One model rendered by the status bar and by the picker, over every
\* remaining fraction in [0, 1] (in thousandths) and the null fraction
Fractions == (0..FracUnit) \cup {NullFrac}

RenderBands(frac) ==
    /\ bands.state = "idle"
    /\ bands' = [state |-> "shown", frac |-> frac,
                 status |-> StatusBand(frac), picker |-> PickerBand(frac)]
    /\ UNCHANGED <<extensionVars, fwp, located>>

BandsTaken ==
    /\ bands.state = "shown"
    /\ bands' = NoBands
    /\ UNCHANGED <<extensionVars, fwp, located>>

NextBands ==
    \/ \E frac \in Fractions : RenderBands(frac)
    \/ BandsTaken

SpecBands == Init /\ [][NextBands]_vars

----------------------------------------------------------------------------
(* Claims *)

\* C1: after a refresh whose quota fetch fails, the cached port and the
\* cached token are both cleared, and the next refresh that starts calls the
\* Process Locator (goes to "discover") before it issues any fetch.
C1_FetchFailureForcesRediscovery ==
    [][/\ ((\E t \in Tasks : pc[t] = "fetch" /\ pc'[t] = "idle") /\ statusText' = "fetch failed")
             => (cachedPort' = NoPort /\ cachedCsrfToken' = NoToken)
       /\ \A t \in Tasks :
             (invalidated /\ pc[t] = "idle" /\ pc'[t] # "idle")
                 => (pc'[t] = "discover" /\ req'[t] = NoReq)]_vars

\* C2: whenever no refresh is in flight, the cached port and the cached
\* token are both present or both absent.
C2_CachePairedWhenIdle ==
    Idle => ((cachedPort = NoPort) <=> (cachedCsrfToken = NoToken))

\* C3: at most one refresh executes at a time.
C3_AtMostOneRefresh == Cardinality(InFlight) <= 1

\* C4: a refresh whose discovery finds no process ends with status
\* "no process", issues no probe and no fetch, and leaves the cache empty.
C4_NoProcessLeavesCacheEmpty ==
    [][\A t \in Tasks :
          (pc[t] = "discover" /\ pc'[t] = "idle" /\ statusText' = "no process")
              => /\ outstanding'[t] = {}
                 /\ req'[t] = NoReq
                 /\ cachedPort' = NoPort
                 /\ cachedCsrfToken' = NoToken]_vars

\* C5: whenever no refresh is in flight and the cache holds an endpoint, its
\* port answered a probe with HTTP 200 in the discovery that cached it, or a
\* quota fetch against it has been answered (HTTP 200, body parsed) since.
C5_CachedEndpointEarned == (Idle /\ CacheFull) => earned \in {"probe", "fetch"}

\* C5 witness: an idle coordinator holding a fallback port that no probe
\* answered and that a quota fetch has answered since
C5_Witness == Idle /\ CacheFull /\ earned = "fetch"

\* C6: findWorkingPort probes the candidates one at a time in the order
\* given, returns the first port whose probe answers 200 without probing a
\* later one, and returns no port only after every candidate failed once.
C6_ProbesInOrderFirstSuccess ==
    LET n == Len(fwp.probed)
        failed(k) == ~fwp.probed[k].ok
    IN  /\ Cardinality(fwp.outstanding) <= 1
        /\ n <= Len(fwp.ports)
        /\ \A k \in 1..n : fwp.probed[k].pos = k /\ fwp.probed[k].port = fwp.ports[k]
        /\ \A k \in 1..(n - 1) : failed(k)
        /\ fwp.state = "running" => (fwp.outstanding = {n + 1} /\ \A k \in 1..n : failed(k))
        /\ fwp.state = "returned" =>
              /\ fwp.outstanding = {}
              /\ IF fwp.result # NoPort
                 THEN n >= 1 /\ fwp.probed[n].ok /\ fwp.result = fwp.ports[n]
                 ELSE n = Len(fwp.ports) /\ \A k \in 1..n : failed(k)

\* C6 witness: of three candidates only the second answers; it is returned
\* and the third is never probed
C6_Witness ==
    /\ fwp.state = "returned"
    /\ Len(fwp.ports) = 3
    /\ Len(fwp.probed) = 2
    /\ fwp.result = fwp.ports[2]
    /\ fwp.ports[3] # fwp.ports[2]

\* C7: when no listening port answers and the command line gave a fallback
\* port, the refresh goes on to the fetch with the fallback, unprobed, and
\* the discovered token; a port that answered a probe is preferred to it.
C7_FallbackPortAndDiscoveredToken ==
    [][\A t \in Tasks :
          /\ (pc[t] = "probe" /\ pc'[t] = "idle") => procInfo[t].extensionPort = NoPort
          /\ (pc[t] \in {"discover", "probe"} /\ pc'[t] = "fetch") =>
                /\ outstanding'[t] = {}
                /\ resolved'[t].found # NoPort => req'[t].port = resolved'[t].found
                /\ resolved'[t].found = NoPort =>
                      /\ req'[t].port = resolved'[t].fallback
                      /\ req'[t].token = resolved'[t].token]_vars

\* C8: when a process with a token is found but no listening port answers
\* and there is no fallback port, the refresh ends with status "no port",
\* issues no fetch and caches no port.
C8_NoPortEndsWithoutFetch ==
    [][\A t \in Tasks :
          /\ (pc[t] \in {"discover", "probe"} /\ pc'[t] = "idle" /\ statusText' # "no process")
                => (statusText' = "no port" /\ req' = req /\ cachedPort' = cachedPort)
          /\ (pc[t] \in {"discover", "probe"} /\ pc'[t] = "fetch")
                => (resolved'[t].found # NoPort \/ resolved'[t].fallback # NoPort)]_vars

\* C8 witness: a refresh has just ended "no port": no fetch in flight, no port cached
C8_Witness ==
    /\ Idle
    /\ statusText = "no port"
    /\ cachedPort = NoPort
    /\ cachedCsrfToken # NoToken

\* C9: a refresh changes the selected label only when it is unset (null) and
\* the fetch ended ok with a non-empty list, and then to the first entry's
\* label; otherwise only a pick in the model picker changes it.
C9_SelectionOnlyInitialisedOnce ==
    [][LET refreshOk == /\ \E t \in Tasks : pc[t] = "fetch" /\ pc'[t] = "idle"
                        /\ statusText' \in {"no data", "quota", "N/A"}
           pick == /\ pickerItems # <<>>
                   /\ pickerItems' = <<>>
                   /\ \E i \in 1..Len(pickerItems) : selectedModelLabel' = pickerItems[i]
       IN  /\ (refreshOk /\ selectedModelLabel = Null /\ Len(cachedModels') > 0)
                 => selectedModelLabel' = cachedModels'[1].label
           /\ selectedModelLabel' # selectedModelLabel
                 => \/ pick
                    \/ refreshOk /\ selectedModelLabel = Null /\ Len(cachedModels') > 0]_vars

\* C10: after a fetch that ended ok the model list is the mapping of that
\* response alone, and an ok fetch whose response repeats the one of the ok
\* fetch before it leaves the list as it was.
C10_ListReplacedWholesale ==
    LET configs == IF lastOk.kind = "configs" THEN lastOk.configs ELSE <<>>
    IN  lastOk # NoResponse =>
        /\ Len(cachedModels) = Len(configs)
        /\ \A i \in 1..Len(configs) :
              /\ cachedModels[i].label =
                    (IF configs[i].label = Absent THEN "Unknown" ELSE configs[i].label)
              /\ cachedModels[i].remainingFraction =
                    (IF configs[i].frac = AbsentNum THEN NullFrac ELSE configs[i].frac)
              /\ cachedModels[i].resetTime =
                    (IF configs[i].reset = Absent THEN "" ELSE configs[i].reset)
        /\ repeated.repeat => cachedModels = repeated.models

\* C10 witness: a two-model response was fetched twice in a row
C10_Witness ==
    /\ repeated.repeat
    /\ Len(cachedModels) = 2
    /\ cachedModels[1] # cachedModels[2]

\* C11: a fetch answered with HTTP 200 and a parsable body that carries no
\* model configs (a body with no fields at all, a nested field missing, or an
\* empty list) ends the refresh as a success: the model list becomes empty,
\* the cached endpoint and the selection stay as they were, and the status
\* is neither "fetch failed" nor "error".
C11_EmptyResponseIsSuccess ==
    [][\A t \in Tasks :
          (/\ pc[t] = "fetch" /\ pc'[t] = "idle"
           /\ \/ event'.answer \in EmptyKinds \cup {"falsy"}
              \/ event'.answer = "configs" /\ event'.count = 0)
              => /\ cachedModels' = <<>>
                 /\ cachedPort' = cachedPort
                 /\ cachedCsrfToken' = cachedCsrfToken
                 /\ selectedModelLabel' = selectedModelLabel
                 /\ statusText' \notin {"fetch failed", "error"}]_vars

\* the same for bodies that are JSON objects (no falsy body)
C11_ObjectBodies ==
    [][\A t \in Tasks :
          (/\ pc[t] = "fetch" /\ pc'[t] = "idle"
           /\ \/ event'.answer \in EmptyKinds
              \/ event'.answer = "configs" /\ event'.count = 0)
              => /\ cachedModels' = <<>>
                 /\ cachedPort' = cachedPort
                 /\ cachedCsrfToken' = cachedCsrfToken
                 /\ selectedModelLabel' = selectedModelLabel
                 /\ statusText' \notin {"fetch failed", "error"}]_vars

OkTexts == {"no data", "quota", "N/A"}
Finishes(t) == pc[t] # "idle" /\ pc'[t] = "idle"

\* C12: a manual refresh that completes shows exactly one notification, a
\* success one when it ends ok and a failure one when it ends in no-process,
\* no-port, fetch-failed or error; an automatic refresh shows none, and no
\* notification is shown by a step that completes no refresh.
C12_ManualRefreshNotifiesOnce ==
    [][/\ \A t \in Tasks :
             Finishes(t) =>
                 event'.notify = (IF ~isManual[t] THEN "none"
                                  ELSE IF statusText' \in OkTexts THEN "info"
                                  ELSE "error")
       /\ (\A t \in Tasks : ~Finishes(t)) => event'.notify = "none"]_vars

FinalTexts == OkTexts \cup {"no process", "no port", "fetch failed", "error"}

\* C13: no exception leaves refreshQuota, and the step that completes a
\* refresh sets one final status: no-process, no-port, fetch-failed, ok (no
\* data, a quota or N/A shown) or error.
C13_EveryRefreshEndsInAFinalStatus ==
    [][/\ ~escaped'
       /\ \A t \in Tasks : Finishes(t) => statusText' \in FinalTexts]_vars

\* C13 witness: the mapping of a response threw, and the refresh ended with
\* status error
C13_Witness ==
    /\ event.answer = "badShape"
    /\ statusText = "error"
    /\ ~escaped
    /\ Idle

\* C14: findAntigravityProcess returns the first entry, in enumeration
\* order, whose command line yields a token, with that entry's process id
\* and its fallback port if it has one; entries without a token are skipped,
\* a missing fallback port never causes a skip, and the result is NotFound
\* exactly when no entry yields a token or the enumeration fails.
C14_FirstProcessWithToken ==
    located.state = "returned" =>
        LET procs == located.enum.procs
            withToken == {k \in 1..Len(procs) : procs[k].csrf # NoToken}
            result == located.result
        IN  /\ (result = NoProc) <=> (located.enum.kind # "json" \/ withToken = {})
            /\ result # NoProc =>
                  /\ result.pid \in withToken
                  /\ \A k \in withToken : result.pid <= k
                  /\ result.csrfToken = procs[result.pid].csrf
                  /\ result.extensionPort = procs[result.pid].port
                  /\ result.listeningPorts = located.ports

\* C14 witness: the first entry has no token and is skipped, the second has
\* a token and no fallback port and is returned
C14_Witness ==
    /\ located.state = "returned"
    /\ Len(located.enum.procs) = 2
    /\ located.enum.procs[1].csrf = NoToken
    /\ located.enum.procs[2].port = NoPort
    /\ located.result.pid = 2
    /\ located.result.extensionPort = NoPort

\* C15: for every remaining fraction in [0, 1] the status bar and the model
\* picker put the model in the same colour band: green when more than 50%
\* remains, yellow when more than 20% and at most 50%, red when at most 20%.
C15_BandsAgree ==
    (bands.state = "shown" /\ bands.frac # NullFrac) =>
        LET band == IF 100 * bands.frac > 50 * FracUnit THEN "green"
                    ELSE IF 100 * bands.frac > 20 * FracUnit THEN "yellow"
                    ELSE "red"
        IN  bands.status = band /\ bands.picker = band

\* C16: every armed refresh timer has a period greater than 0, whatever the
\* configured interval is (0, negative or not set), and a period of 120
\* seconds when no interval is set.
C16_TimerPeriodPositive ==
    \A a \in armed :
        /\ a.period > 0
        /\ ~a.set => a.period = 120 * 1000

\* C19: at most one refresh timer is armed at any time; a configuration
\* change cancels the timer armed before it arms the new one and leaves the
\* refreshes in flight as they are; after deactivate no timer is armed and
\* no refresh starts.
C19_AtMostOneTimer ==
    [][/\ Cardinality(armed') <= 1
       /\ \A a \in armed' : a.id = refreshTimer'
       /\ (active = "active" /\ timersMade' # timersMade) =>
             /\ \A a \in armed : a \notin armed'
             /\ UNCHANGED <<pc, isManual, procInfo, outstanding, req,
                            cachedPort, cachedCsrfToken, statusText>>
       /\ active' = "deactivated" => armed' = {}
       /\ active = "deactivated" => \A t \in Tasks : pc[t] = "idle" => pc'[t] = "idle"]_vars

\* C19 witness: the interval was changed twice while a refresh was in
\* flight; one timer is armed, the third, and the refresh is still in flight
C19_Witness ==
    /\ active = "active"
    /\ timersMade = 3
    /\ Cardinality(armed) = 1
    /\ InFlight # {}
    /\ \E t \in Tasks : pc[t] = "discover"

\* C19 second witness: deactivated with a refresh still in flight, no timer armed
C19_WitnessDeactivated ==
    /\ active = "deactivated"
    /\ armed = {}
    /\ InFlight # {}

\* C17: a refresh that starts with a port and a token in the cache calls
\* neither the Process Locator nor a probe and issues one quota fetch, to
\* the cached port with the cached token; no refresh issues a second fetch
\* or goes back to discovery or probing once its fetch is issued, and none
\* discovers twice.
C17_CachedStartFetchesOnce ==
    [][\A t \in Tasks :
          /\ (pc[t] = "idle" /\ pc'[t] # "idle") =>
                IF CacheFull
                THEN /\ pc'[t] = "fetch"
                     /\ req'[t] = [port |-> cachedPort, token |-> cachedCsrfToken]
                     /\ outstanding'[t] = {}
                     /\ procInfo'[t] = NoProc
                ELSE pc'[t] = "discover" /\ req'[t] = NoReq
          /\ pc[t] = "discover" => pc'[t] \in {"discover", "probe", "fetch", "idle"}
          /\ pc[t] = "probe" => pc'[t] \in {"probe", "fetch", "idle"}
          /\ pc[t] = "probe" /\ pc'[t] = "probe" => procInfo'[t] = procInfo[t]
          /\ pc[t] = "fetch" => pc'[t] \in {"fetch", "idle"}
          /\ (pc[t] = "fetch" /\ pc'[t] = "fetch") => req'[t] = req[t]
          /\ pc'[t] = "fetch" => outstanding'[t] = {}
          /\ pc'[t] # "fetch" => req'[t] = NoReq]_vars

\* C17 witness: a refresh started on a full cache has its one fetch in
\* flight, to the cached endpoint, having made no discovery
C17_Witness ==
    \E t \in Tasks :
        /\ pc[t] = "fetch"
        /\ resolved[t] = NoResolved
        /\ CacheFull
        /\ req[t] = [port |-> cachedPort, token |-> cachedCsrfToken]

\* C20: every fetchQuota call in flight was given a port and a token, none
\* of them null, that belong together: after a discovery, the token that
\* discovery found and a port of that discovery (probed or fallback).
C20_FetchGetsAMatchingPair ==
    \A t \in Tasks :
        pc[t] = "fetch" =>
            /\ req[t].port # NoPort
            /\ req[t].token # NoToken
            /\ resolved[t] # NoResolved =>
                  /\ req[t].token = resolved[t].token
                  /\ req[t].port \in {resolved[t].found, resolved[t].fallback}

\* C18: once the process is there with a token, one of its ports answers
\* probes and quota fetches to it succeed, a refresh eventually ends ok with
\* the endpoint cached, whatever the cache held; and every refresh that is
\* started terminates.
C18_EventuallyRecovers ==
    /\ healthy ~> recovered
    /\ \A t \in Tasks : (pc[t] # "idle") ~> (pc[t] = "idle")

\* the second half of C18 alone: every refresh that is started terminates
C18_EveryRefreshTerminates ==
    \A t \in Tasks : (pc[t] # "idle") ~> (pc[t] = "idle")

\* C21: a refresh that does not end ok (no-process, no-port, fetch-failed or
\* error) leaves the model list and the selected label as they were: no step
\* of refreshQuota changes either of them, except the step that ends ok.
C21_FailedRefreshKeepsData ==
    [][\A t \in Tasks :
          (pc'[t] # pc[t] /\ ~(Finishes(t) /\ statusText' \in OkTexts))
              => /\ cachedModels' = cachedModels
                 /\ selectedModelLabel' = selectedModelLabel]_vars

\* C22: whenever no refresh is in flight the status shown is not a transient
\* one: it is neither connecting nor fetching, however refreshes overlapped
\* and whatever was picked in the model picker.
C22_NoTransientStatusWhenIdle ==
    Idle => statusText \notin {"connecting", "fetching"}

\* C22 witness: a refresh ended ok and selected a model, the last refresh to
\* end failed, and none is in flight
C22_Witness ==
    /\ Idle
    /\ statusText = "fetch failed"
    /\ cachedModels # <<>>
    /\ selectedModelLabel # Null

====
